---- MODULE Spec2Model ----
(***************************************************************************)
(* Device custom-property update (azure-container-app/                     *)
(* update_device_properties.py): catalog resolver, property-set            *)
(* reconciler and the three-step write ladder of main(); and the HTTP      *)
(* service (azure-functions/function_app.py): rate limiter, API-key        *)
(* validation and the single-write update handler.                         *)
(*                                                                         *)
(* Python dicts are records with a `keys` field naming the keys that are   *)
(* present; a field whose key is absent holds a fixed filler (NullV, "")   *)
(* so that record equality is dict equality.  JSON values are tagged       *)
(* records (null, bool, number, string).                                   *)
(***************************************************************************)
EXTENDS Integers, Sequences, FiniteSets, TLC

VARIABLES
    pc,           \* position of main()
    device_id,    \* --device-id argument (id, serial number or name)
    properties,   \* parsed stdin JSON: sequence of [key, val], keys distinct
    device,       \* device returned by fetch_device
    lookup,       \* result of build_property_lookup
    typed_cp,     \* update_properties()[0]
    string_cp,    \* update_properties()[1]
    original_cp,  \* update_properties()[2]
    error,        \* main's `error` variable
    calls,        \* remote API calls issued so far, in order
    result,       \* final JSON result lines printed so far
    exit_code,    \* process exit status ("running" until the process ends)
    all_props,    \* catalog held by build_property_lookup while it runs
    remote_cp,    \* customProperties the remote holds for the device
    remote_mode,  \* how the remote applies an accepted customProperties write
    run,          \* 1 in the first invocation, 2 in a repeated one
    first,        \* what the first invocation left behind
    now,              \* time.time() of the service's host, in seconds
    rate_limit_cache, \* function_app.rate_limit_cache: client IP -> (count, window_start)
    inv,              \* the invocations of check_rate_limit, one per worker thread
    window,           \* per client IP: start of the current window and calls allowed in it
    key_vault,        \* USE_KEY_VAULT and key_vault_client: Key Vault is configured
    req,              \* the HTTP request being handled
    hpc,              \* position of the HTTP handler
    gate,             \* what require_valid_api_key returned
    hdevice,          \* the handler's `device`
    prop_lookup,      \* the handler's `prop_lookup`
    resp              \* the HTTP response

vars == <<pc, device_id, properties, device, lookup, typed_cp, string_cp,
          original_cp, error, calls, result, exit_code, all_props, remote_cp,
          remote_mode, run, first, now, rate_limit_cache, inv, window,
          key_vault, req, hpc, gate, hdevice, prop_lookup, resp>>

\* the state of one HTTP handler
handlerVars == <<key_vault, req, hpc, gate, hdevice, prop_lookup, resp>>

\* the state of the HTTP service
serviceVars == <<now, rate_limit_cache, inv, window, handlerVars>>

\* the state of the command-line program but the log of remote calls
jobButCalls == <<pc, device_id, properties, device, lookup, typed_cp, string_cp,
                 original_cp, error, result, exit_code, all_props, remote_cp,
                 remote_mode, run, first>>

\* the state of the command-line program
jobVars == <<pc, device_id, properties, device, lookup, typed_cp, string_cp,
             original_cp, error, calls, result, exit_code, all_props, remote_cp,
             remote_mode, run, first>>

\* the remote's state and the bookkeeping across invocations
remoteVars == <<remote_cp, remote_mode, run, first>>

-----------------------------------------------------------------------------
(* Bounds of the model *)

MaxExisting == 2   \* length of a device's customProperties
MaxUpdates  == 2   \* number of keys in the stdin JSON
MaxCatalog  == 2   \* number of definitions the catalog fetch returns

\* the same two lengths where whole invocations are explored
MaxExistingRun == 1
MaxUpdatesRun  == 1

-----------------------------------------------------------------------------
(* JSON values *)

NullV    == [t |-> "null", b |-> FALSE, n |-> 0, s |-> ""]
BoolV(x) == [t |-> "bool", b |-> x,     n |-> 0, s |-> ""]
NumV(k)  == [t |-> "num",  b |-> FALSE, n |-> k, s |-> ""]
StrV(x)  == [t |-> "str",  b |-> FALSE, n |-> 0, s |-> x]

None == "None"     \* Python None where a string is expected

Digit == <<"0", "1", "2", "3", "4", "5", "6", "7", "8", "9">>

RECURSIVE DecNat(_)
DecNat(n) == IF n < 10 THEN Digit[n + 1]
             ELSE DecNat(n \div 10) \o Digit[(n % 10) + 1]

\* str(v) of an int
Decimal(n) == IF n < 0 THEN "-" \o DecNat(0 - n) ELSE DecNat(n)

\* to_string without the bool case: str(True) is "True"
to_string_PyStr(v) ==
    IF v.t = "null" THEN StrV("")
    ELSE IF v.t = "bool" THEN StrV(IF v.b THEN "True" ELSE "False")
    ELSE IF v.t = "num" THEN StrV(Decimal(v.n))
    ELSE StrV(v.s)

to_string(v) ==
    IF v.t = "null" THEN StrV("")
    ELSE IF v.t = "bool" THEN StrV(IF v.b THEN "true" ELSE "false")
    ELSE IF v.t = "num" THEN StrV(Decimal(v.n))
    ELSE StrV(v.s)

-----------------------------------------------------------------------------
(* Static configuration *)

PROP_NAME_MAP ==
    ("bookable" :> "Enable Equipment Booking") @@
    ("recurring" :> "Allow Recurring Bookings") @@
    ("approvers" :> "Booking Approvers") @@
    ("fleetManagers" :> "Fleet Managers") @@
    ("conflicts" :> "Allow Double Booking") @@
    ("windowDays" :> "Booking Window (Days)") @@
    ("maxDurationHours" :> "Maximum Booking Duration (Hours)") @@
    ("language" :> "Mailbox Language")

-----------------------------------------------------------------------------
(* Property values (entries of customProperties) *)

\* A property value dict.  pid/setId are property.id and
\* property.propertySet.id ("" / None when the key is absent).
PV(keys, pid, setId, value, data, id, version) ==
    [keys |-> keys, pid |-> pid, setId |-> setId, value |-> value,
     data |-> data, id |-> id, version |-> version]

\* normalize_existing without its second `if`: `data` survives next to `value`
normalize_existing_KeepsData(pv) ==
    IF "data" \in pv.keys /\ "value" \notin pv.keys
    THEN [pv EXCEPT !.keys = (@ \ {"data"}) \cup {"value"},
                    !.value = pv.data, !.data = NullV]
    ELSE pv

normalize_existing(pv) ==
    LET s1 == IF "data" \in pv.keys /\ "value" \notin pv.keys
              THEN [pv EXCEPT !.keys = (@ \ {"data"}) \cup {"value"},
                              !.value = pv.data, !.data = NullV]
              ELSE pv
    IN  IF "data" \in s1.keys
        THEN [s1 EXCEPT !.keys = @ \ {"data"}, !.data = NullV]
        ELSE s1

NormalizeAll(cp) == [i \in 1..Len(cp) |-> normalize_existing(cp[i])]

\* existing_by_prop.get(pid): the last entry of cp carrying that property id
HasExisting(cp, pid) ==
    \E i \in 1..Len(cp) : "property" \in cp[i].keys /\ cp[i].pid # "" /\ cp[i].pid = pid

existing_by_prop(cp, pid) ==
    LET idx == {i \in 1..Len(cp) :
                   "property" \in cp[i].keys /\ cp[i].pid # "" /\ cp[i].pid = pid}
    IN  cp[CHOOSE i \in idx : \A j \in idx : j <= i]

\* identity and version of the existing entry not carried over
BuildObj_NoReuse(cp, info, val) ==
    PV({"property", "value"}, info.id, info.setId, val, NullV, "", "")

\* {k: v for k, v in existing_pv.items() if k in ('id', 'version')} plus
\* property and value
BuildObj(cp, info, val) ==
    IF HasExisting(cp, info.id)
    THEN LET e == existing_by_prop(cp, info.id)
         IN  PV((e.keys \cap {"id", "version"}) \cup {"property", "value"},
                info.id, info.setId, val, NullV,
                IF "id" \in e.keys THEN e.id ELSE "",
                IF "version" \in e.keys THEN e.version ELSE "")
    ELSE PV({"property", "value"}, info.id, info.setId, val, NullV, "", "")

\* raw_val = incoming_val if incoming_val else None: every falsy value is null
raw_val_Falsy(incoming) ==
    IF incoming \in {StrV(""), BoolV(FALSE), NumV(0)} THEN NullV ELSE incoming

\* raw_val = incoming_val if incoming_val != '' else None
raw_val(incoming) == IF incoming = StrV("") THEN NullV ELSE incoming

\* `break` instead of `continue` at an unknown key
Resolved_StopsAtUnknown(props, lk) ==
    LET bad == {i \in 1..Len(props) : props[i].key \notin DOMAIN lk}
    IN  IF bad = {} THEN props
        ELSE SubSeq(props, 1, (CHOOSE i \in bad : \A j \in bad : i <= j) - 1)

\* the updates whose key is in the lookup, in dict order
Resolved(props, lk) == SelectSeq(props, LAMBDA p : p.key \in DOMAIN lk)

\* one output entry per existing entry of the property instead of one per update
RECURSIVE PerExisting(_, _, _, _)
PerExisting(cp, res, lk, k) ==
    IF k > Len(res) THEN <<>>
    ELSE LET n == Cardinality({i \in 1..Len(cp) : cp[i].pid = lk[res[k].key].id})
         IN  [i \in 1..(IF n = 0 THEN 1 ELSE n) |-> k] \o PerExisting(cp, res, lk, k + 1)

update_properties_PerExisting(dev, props, lk) ==
    LET cp  == NormalizeAll(dev.customProperties)
        res == Resolved(props, lk)
        ix  == PerExisting(cp, res, lk, 1)
    IN  [typed    |-> [i \in 1..Len(ix) |->
                          BuildObj(cp, lk[res[ix[i]].key], raw_val(res[ix[i]].val))],
         string   |-> [i \in 1..Len(ix) |->
                          BuildObj(cp, lk[res[ix[i]].key], to_string(raw_val(res[ix[i]].val)))],
         original |-> cp]

\* the lists built from the entries as fetched, before normalization, every
\* key but property and value copied
update_properties_CopiesRaw(dev, props, lk) ==
    LET raw == dev.customProperties
        res == Resolved(props, lk)
        Obj(info, val) ==
            IF HasExisting(raw, info.id)
            THEN LET e == existing_by_prop(raw, info.id)
                 IN  PV((e.keys \ {"property", "value"}) \cup {"property", "value"},
                        info.id, info.setId, val, e.data, e.id, e.version)
            ELSE PV({"property", "value"}, info.id, info.setId, val, NullV, "", "")
    IN  [typed    |-> [i \in 1..Len(res) |-> Obj(lk[res[i].key], raw_val(res[i].val))],
         string   |-> [i \in 1..Len(res) |->
                          Obj(lk[res[i].key], to_string(raw_val(res[i].val)))],
         original |-> NormalizeAll(raw)]

\* an update whose value the device already holds is left out
update_properties_SkipUnchanged(dev, props, lk) ==
    LET cp  == NormalizeAll(dev.customProperties)
        res == SelectSeq(Resolved(props, lk), LAMBDA p :
                   ~(/\ HasExisting(cp, lk[p.key].id)
                     /\ existing_by_prop(cp, lk[p.key].id).value = to_string(raw_val(p.val))))
    IN  [typed    |-> [i \in 1..Len(res) |->
                          BuildObj(cp, lk[res[i].key], raw_val(res[i].val))],
         string   |-> [i \in 1..Len(res) |->
                          BuildObj(cp, lk[res[i].key], to_string(raw_val(res[i].val)))],
         original |-> cp]

update_properties(dev, props, lk) ==
    LET cp  == NormalizeAll(dev.customProperties)
        res == Resolved(props, lk)
    IN  [typed    |-> [i \in 1..Len(res) |->
                          BuildObj(cp, lk[res[i].key], raw_val(res[i].val))],
         string   |-> [i \in 1..Len(res) |->
                          BuildObj(cp, lk[res[i].key], to_string(raw_val(res[i].val)))],
         original |-> cp]

-----------------------------------------------------------------------------
(* Catalog resolver *)

\* next((p for p in all_props if p.get('name') == name), None)
HasMatch(defs, name) == \E i \in 1..Len(defs) : defs[i].name = name

\* the last definition of that name instead of the first
FirstMatch_Last(defs, name) ==
    defs[CHOOSE i \in 1..Len(defs) :
            /\ defs[i].name = name
            /\ \A j \in (i + 1)..Len(defs) : defs[j].name # name]

FirstMatch(defs, name) ==
    defs[CHOOSE i \in 1..Len(defs) :
                 /\ defs[i].name = name
                 /\ \A j \in 1..(i - 1) : defs[j].name # name]

build_property_lookup(defs) ==
    [key \in {k \in DOMAIN PROP_NAME_MAP : HasMatch(defs, PROP_NAME_MAP[k])} |->
        LET mp == FirstMatch(defs, PROP_NAME_MAP[key])
        IN  [id    |-> mp.id,
             setId |-> IF "propertySet" \in mp.keys THEN mp.setId ELSE None,
             name  |-> PROP_NAME_MAP[key]]]

-----------------------------------------------------------------------------
(* Inputs: the command line, stdin and the remote's answers *)

SeqsUpTo(S, n) == UNION {[1..k -> S] : k \in 0..n}

Injective(q) == \A i, j \in 1..Len(q) : i # j => q[i] # q[j]

\* The remote holds one device; a Device search matches on the searched field.
RemoteDevice == [id |-> "b1", serialNumber |-> "G9X", name |-> "Truck 7"]

Identifiers == {"b1", "G9X", "Truck 7", "zz"}

\* customProperties entries the remote may hold for the device: a current
\* entry with identity and version, a legacy entry with only `data`, and an
\* entry with both `value` and `data` for the same property as the legacy one.
ExistingPool ==
    { PV({"property", "value", "id", "version"}, "P1", "", StrV("old"), NullV, "pv1", "v7"),
      PV({"property", "data"}, "P2", "", NullV, StrV("legacy"), "", ""),
      PV({"property", "value", "data", "id"}, "P2", "", StrV("keep"), StrV("drop"), "pv2", "") }

ExistingLists == SeqsUpTo(ExistingPool, MaxExisting)

ExistingListsRun == SeqsUpTo(ExistingPool, MaxExistingRun)

\* (key, value) pairs of the stdin JSON; "colour" is no logical key.
PairPool ==
    { [key |-> "bookable",   val |-> BoolV(TRUE)],
      [key |-> "bookable",   val |-> BoolV(FALSE)],
      [key |-> "bookable",   val |-> StrV("")],
      [key |-> "windowDays", val |-> NumV(14)],
      [key |-> "windowDays", val |-> NumV(0)],
      [key |-> "windowDays", val |-> StrV("14")],
      [key |-> "colour",     val |-> StrV("red")] }

\* a JSON object: keys are distinct, order is the order of the text
UpdateLists ==
    {q \in SeqsUpTo(PairPool, MaxUpdates) :
        \A i, j \in 1..Len(q) : i # j => q[i].key # q[j].key}

UpdateListsRun == {q \in UpdateLists : Len(q) <= MaxUpdatesRun}

\* Property definitions the catalog may hold: ids are unique, names need
\* not be (P3 repeats the name of P1 and carries no property set).
DefPool ==
    { [keys |-> {"id", "name", "propertySet"}, id |-> "P1",
       name |-> "Enable Equipment Booking", setId |-> "S1"],
      [keys |-> {"id", "name", "propertySet"}, id |-> "P2",
       name |-> "Booking Window (Days)", setId |-> "S1"],
      [keys |-> {"id", "name"}, id |-> "P3",
       name |-> "Enable Equipment Booking", setId |-> ""] }

Catalogs == {q \in SeqsUpTo(DefPool, MaxCatalog) : Injective(q)}

NoDevice == [keys |-> {}, id |-> "", name |-> "", serialNumber |-> "",
             customProperties |-> <<>>]

Device(cp) == [keys |-> {"id", "name", "serialNumber", "customProperties"},
               id |-> RemoteDevice.id, name |-> RemoteDevice.name,
               serialNumber |-> RemoteDevice.serialNumber,
               customProperties |-> cp]

NoLookup == <<>>

NoFirst == [cp |-> <<>>, writes |-> 0, lookup |-> NoLookup]

\* The remote keeps the device's property values as a collection keyed by
\* property id.  An accepted write either replaces the collection by the
\* list written or replaces the entries of the written property ids and
\* keeps the others; written entries are stored as they were sent.
RemoteModes == {"replace", "upsert"}

RemoteApply(mode, cp, list) ==
    IF mode = "replace" THEN list
    ELSE SelectSeq(cp, LAMBDA e : \A i \in 1..Len(list) : list[i].pid # e.pid) \o list

-----------------------------------------------------------------------------
(* Remote calls and payloads *)

NoPayload == [keys |-> {}, id |-> "", name |-> "", customProperties |-> <<>>]

\* {'id': device['id'], 'customProperties': cp}
MinimalPayload(dev, cp) ==
    [keys |-> {"id", "customProperties"}, id |-> dev.id, name |-> "",
     customProperties |-> cp]

\* the fetched device sent back whole, with the new customProperties
FullPayload_WholeDevice(dev, cp) ==
    [keys |-> dev.keys \cup {"customProperties"},
     id |-> IF "id" \in dev.keys THEN dev.id ELSE "",
     name |-> IF "name" \in dev.keys THEN dev.name ELSE "",
     customProperties |-> cp]

\* {k: v for k, v in device.items() if k in ('id','name')} + customProperties
FullPayload(dev, cp) ==
    [keys |-> (dev.keys \cap {"id", "name"}) \cup {"customProperties"},
     id |-> IF "id" \in dev.keys THEN dev.id ELSE "",
     name |-> IF "name" \in dev.keys THEN dev.name ELSE "",
     customProperties |-> cp]

\* one call of the mygeotab API object; `site` is the calling function
Call(site, op, entity, by, arg, payload, res) ==
    [site |-> site, op |-> op, entity |-> entity, by |-> by, arg |-> arg,
     payload |-> payload, res |-> res]

IsWrite(c) == c.op = "set"

Writes == SelectSeq(calls, IsWrite)

-----------------------------------------------------------------------------
(* Results *)

\* json.dumps({'success': False, 'error': str(e)}) of the except block
ErrorResult(msg) ==
    [keys |-> {"success", "error"}, success |-> FALSE, message |-> "",
     deviceId |-> "", attempts |-> 0, error |-> msg]

\* the result line printed after post_fetch
FinalResult(err, dev_id) ==
    [keys |-> {"success", "message", "deviceId", "database", "attempts", "error"},
     success |-> (err = None),
     message |-> IF err = None THEN "Update succeeded" ELSE "Update failed",
     deviceId |-> dev_id, attempts |-> 3, error |-> err]

\* the except block printing a fixed text instead of str(e)
Fatal_FixedText(msg) ==
    /\ result' = Append(result, ErrorResult("Update failed"))
    /\ exit_code' = "1"
    /\ pc' = "done"

\* except Exception as e: print the error result, sys.exit(1)
Fatal(msg) ==
    /\ result' = Append(result, ErrorResult(msg))
    /\ exit_code' = "1"
    /\ pc' = "done"

-----------------------------------------------------------------------------
(* The HTTP service: rate limiter (function_app.py) *)

RATE_LIMIT_REQUESTS == 30   \* requests per window
RATE_LIMIT_WINDOW   == 60   \* seconds

MaxTime == 61               \* the clock stops here

\* what the clock advances by between two events
TickSteps == {30, 31}

ClientIPs == {"10.0.0.1", "10.0.0.2"}

\* worker threads of the host, each running one invocation at a time
Threads == {1, 2}

\* Messages are sequences of words.
NoMsg == <<>>

\* f"Rate limit exceeded. Try again in {remaining_time} seconds."
RateLimitMsg(remaining_time) ==
    <<"Rate", "limit", "exceeded.", "Try", "again", "in", Decimal(remaining_time),
      "seconds.">>

\* line 430: the window has expired
Expired(current_time, window_start) == current_time - window_start > RATE_LIMIT_WINDOW

\* one call more than the limit let through
OverLimit_Above(count) == count > RATE_LIMIT_REQUESTS

\* line 435: the limit is used up
OverLimit(count) == count >= RATE_LIMIT_REQUESTS

\* Lines 426-446 on the values read from the cache: the tuple returned and
\* the entry stored (write = FALSE: the cache is not written)
RateDecision(present, count, window_start, current_time) ==
    IF present
    THEN IF Expired(current_time, window_start)
         THEN [allowed |-> TRUE, msg |-> NoMsg, write |-> TRUE,
               entry |-> [count |-> 1, window_start |-> current_time]]
         ELSE IF OverLimit(count)
         THEN [allowed |-> FALSE,
               msg |-> RateLimitMsg(RATE_LIMIT_WINDOW - (current_time - window_start)),
               write |-> FALSE,
               entry |-> [count |-> count, window_start |-> window_start]]
         ELSE [allowed |-> TRUE, msg |-> NoMsg, write |-> TRUE,
               entry |-> [count |-> count + 1, window_start |-> window_start]]
    ELSE [allowed |-> TRUE, msg |-> NoMsg, write |-> TRUE,
          entry |-> [count |-> 1, window_start |-> current_time]]

\* check_rate_limit run from its first line to its return on a cache
check_rate_limit(cache, client_ip, current_time) ==
    LET present == client_ip \in DOMAIN cache
        d == RateDecision(present,
                          IF present THEN cache[client_ip].count ELSE 0,
                          IF present THEN cache[client_ip].window_start ELSE 0,
                          current_time)
    IN  [allowed |-> d.allowed, msg |-> d.msg,
         cache |-> IF d.write THEN (client_ip :> d.entry) @@ cache ELSE cache]

\* a call let through at current_time counts for the window it falls in; a
\* window starts with the first call let through after the one before expired
CountAllowed(w, client_ip, current_time) ==
    IF client_ip \in DOMAIN w /\ ~(current_time - w[client_ip].start > RATE_LIMIT_WINDOW)
    THEN (client_ip :> [start |-> w[client_ip].start,
                        allowed |-> w[client_ip].allowed + 1]) @@ w
    ELSE (client_ip :> [start |-> current_time, allowed |-> 1]) @@ w

NoReturn == [allowed |-> FALSE, msg |-> <<"no", "return">>]

\* a thread that runs no invocation; ret is what its last one returned
IdleThread(ret) ==
    [pc |-> "idle", client_ip |-> "", current_time |-> 0, present |-> FALSE,
     count |-> 0, window_start |-> 0, ret |-> ret]

\* the module after import: an empty cache
LimiterStarted ==
    /\ now = 0
    /\ rate_limit_cache = <<>>
    /\ inv = [t \in Threads |-> IdleThread(NoReturn)]
    /\ window = <<>>

-----------------------------------------------------------------------------
(* The HTTP service: API keys and requests *)

KeyLength == 32    \* len(api_key) != 32

RECURSIVE Rep(_, _)
Rep(ch, n) == IF n = 0 THEN <<>> ELSE Append(Rep(ch, n - 1), ch)

\* The value of apiKey / clientId in the request body: null (or absent), a
\* string (a sequence of characters) or a number.
NoKey == [t |-> "null", chars |-> <<>>]

StrKey(chars) == [t |-> "str", chars |-> chars]

NumKey == [t |-> "num", chars |-> <<>>]

\* bool(v) of Python: null and "" are false, the number is not 0
Truthy(k) == k.t = "num" \/ (k.t = "str" /\ k.chars # <<>>)

AlnumChars == {"a", "b", "7"}

\* str.isalnum(): not empty and every character a letter or a digit
isalnum(chars) == chars # <<>> /\ \A i \in 1..Len(chars) : chars[i] \in AlnumChars

\* api_key.replace('-', '')
WithoutDashes(chars) == SelectSeq(chars, LAMBDA c : c # "-")

\* the key of the one client whose secrets Key Vault holds
KnownKey == StrKey(Rep("a", KeyLength))

KeyPool ==
    { NoKey, StrKey(<<>>), NumKey, StrKey(<<"a", "b", "7">>),
      KnownKey,
      StrKey(Rep("b", KeyLength)),
      StrKey(Rep("a", KeyLength - 1) \o <<"-">>),
      StrKey(Rep("a", KeyLength - 1) \o <<"!">>),
      StrKey(Rep("-", KeyLength)) }

\* what key_vault_client.get_secret('client-<key>-database') may do
VaultOutcomes(k) == (IF k = KnownKey THEN {"found"} ELSE {"not found"}) \cup {"error"}

MsgKeyRequired   == <<"API", "key", "is", "required">>
MsgKeyFormat     == <<"Invalid", "API", "key", "format">>
MsgVaultOff      == <<"Key", "Vault", "not", "configured">>
MsgInvalidKey    == <<"Invalid", "API", "key">>
MsgRequestFormat == <<"Invalid", "request", "format">>
MsgVaultError    == <<"Key", "Vault", "error">>

\* a lookup that failed for another reason than a missing secret reported
\* as such
validate_api_key_Distinguishes(api_key, vault_on, outcome) ==
    IF ~Truthy(api_key) THEN [valid |-> FALSE, msg |-> MsgKeyRequired]
    ELSE IF api_key.t # "str" \/ Len(api_key.chars) # KeyLength
    THEN [valid |-> FALSE, msg |-> MsgKeyFormat]
    ELSE IF ~isalnum(WithoutDashes(api_key.chars))
    THEN [valid |-> FALSE, msg |-> MsgKeyFormat]
    ELSE IF ~vault_on THEN [valid |-> FALSE, msg |-> MsgVaultOff]
    ELSE IF outcome = "found" THEN [valid |-> TRUE, msg |-> NoMsg]
    ELSE IF outcome = "not found" THEN [valid |-> FALSE, msg |-> MsgInvalidKey]
    ELSE [valid |-> FALSE, msg |-> MsgVaultError]

\* Lines 448-498; outcome is what get_secret does if it is called
validate_api_key(api_key, vault_on, outcome) ==
    IF ~Truthy(api_key) THEN [valid |-> FALSE, msg |-> MsgKeyRequired]
    ELSE IF api_key.t # "str" \/ Len(api_key.chars) # KeyLength
    THEN [valid |-> FALSE, msg |-> MsgKeyFormat]
    ELSE IF ~isalnum(WithoutDashes(api_key.chars))
    THEN [valid |-> FALSE, msg |-> MsgKeyFormat]
    ELSE IF ~vault_on THEN [valid |-> FALSE, msg |-> MsgVaultOff]
    ELSE IF outcome = "found" THEN [valid |-> TRUE, msg |-> NoMsg]
    ELSE [valid |-> FALSE, msg |-> MsgInvalidKey]

\* validate_api_key gets as far as get_secret
CallsVault(api_key, vault_on) == validate_api_key(api_key, vault_on, "found").valid

\* needle in msg
Contains(msg, needle) ==
    \E i \in 0..(Len(msg) - Len(needle)) : SubSeq(msg, i + 1, i + Len(needle)) = needle

\* Lines 1086 / 1679: 401 if "Invalid API key" in error_msg else 429
status_code(error_msg) == IF Contains(error_msg, MsgInvalidKey) THEN 401 ELSE 429

NoJsonBody == [json |-> FALSE, keys |-> {}, apiKey |-> NoKey, clientId |-> NoKey]

JsonBody(keys, apiKey, clientId) ==
    [json |-> TRUE, keys |-> keys, apiKey |-> apiKey, clientId |-> clientId]

BodyPool ==
    {NoJsonBody, JsonBody({}, NoKey, NoKey)}
    \cup {JsonBody({"apiKey"}, k, NoKey) : k \in KeyPool}
    \cup {JsonBody({"clientId"}, NoKey, KnownKey),
          JsonBody({"apiKey", "clientId"}, StrKey(<<>>), KnownKey)}

\* req_body.get('apiKey') or req_body.get('clientId')
BodyKey(body) ==
    LET a == IF "apiKey" \in body.keys THEN body.apiKey ELSE NoKey
        b == IF "clientId" \in body.keys THEN body.clientId ELSE NoKey
    IN  IF Truthy(a) THEN a ELSE b

Endpoints == {"update-device-properties", "sync-to-exchange"}

NoRequest == [client_ip |-> "", endpoint |-> "", body |-> NoJsonBody,
              deviceId |-> "", properties |-> <<>>]

NoGate == [valid |-> FALSE, api_key |-> NoKey, error_msg |-> NoMsg, by |-> "none",
           vault |-> "not called"]

NoResp == [status |-> 0, success |-> FALSE, error |-> NoMsg]

\* Lines 500-532 on a cache: the tuple returned, the return statement that
\* produced it (by), what get_secret did, and the cache afterwards
require_valid_api_key(cache, request, current_time, vault_on, outcome) ==
    LET rl  == check_rate_limit(cache, request.client_ip, current_time)
        key == BodyKey(request.body)
        v   == validate_api_key(key, vault_on, outcome)
        called == rl.allowed /\ request.body.json /\ CallsVault(key, vault_on)
        ret == IF ~rl.allowed
               THEN [valid |-> FALSE, api_key |-> NoKey, error_msg |-> rl.msg, by |-> "rate"]
               ELSE IF ~request.body.json
               THEN [valid |-> FALSE, api_key |-> NoKey, error_msg |-> MsgRequestFormat,
                     by |-> "request"]
               ELSE IF ~v.valid
               THEN [valid |-> FALSE, api_key |-> NoKey, error_msg |-> v.msg, by |-> "key"]
               ELSE [valid |-> TRUE, api_key |-> key, error_msg |-> NoMsg, by |-> "ok"]
    IN  [gate |-> [valid |-> ret.valid, api_key |-> ret.api_key,
                   error_msg |-> ret.error_msg, by |-> ret.by,
                   vault |-> IF called THEN outcome ELSE "not called"],
         allowed |-> rl.allowed,
         cache |-> rl.cache]

\* no request is being handled
HandlerIdle(vault_on) ==
    /\ key_vault = vault_on
    /\ req = NoRequest
    /\ hpc = "idle"
    /\ gate = NoGate
    /\ hdevice = NoDevice
    /\ prop_lookup = NoLookup
    /\ resp = NoResp

-----------------------------------------------------------------------------
(* The HTTP service: the merge of update_device_properties *)

\* line 1188: if value == '': value = None
EmptyToNone(value) == IF value = StrV("") THEN NullV ELSE value

\* the last entry of the property id instead of the first
existing_index_Last(cp, pid) ==
    LET hits == {i \in 1..Len(cp) : "property" \in cp[i].keys /\ cp[i].pid = pid}
    IN  IF hits = {} THEN 0 ELSE CHOOSE i \in hits : \A j \in hits : j <= i

\* Lines 1192-1196: index of the first entry of the property id, 0 for None
existing_index(cp, pid) ==
    LET hits == {i \in 1..Len(cp) : "property" \in cp[i].keys /\ cp[i].pid = pid}
    IN  IF hits = {} THEN 0 ELSE CHOOSE i \in hits : \A j \in hits : i <= j

\* Lines 1199-1207
property_value(prop_info, value) ==
    PV({"property", "value"}, prop_info.id, prop_info.setId, value, NullV, "", "")

\* Lines 1180-1216: the loop over properties.items(), from the k-th item on
RECURSIVE custom_properties(_, _, _, _)
custom_properties(cp, props, lk, k) ==
    IF k > Len(props) THEN cp
    ELSE IF props[k].key \notin DOMAIN lk THEN custom_properties(cp, props, lk, k + 1)
    ELSE LET prop_info == lk[props[k].key]
             pv == property_value(prop_info, EmptyToNone(props[k].val))
             i  == existing_index(cp, prop_info.id)
         IN  custom_properties(IF i # 0 THEN [cp EXCEPT ![i] = pv] ELSE Append(cp, pv),
                               props, lk, k + 1)

ServiceStarted == LimiterStarted /\ HandlerIdle(TRUE)

-----------------------------------------------------------------------------
(* main() *)

\* the command-line program before its first statement
JobStarted(lists) ==
    /\ pc = "start"
    /\ device_id = ""
    /\ properties = <<>>
    /\ device = NoDevice
    /\ lookup = NoLookup
    /\ typed_cp = <<>>
    /\ string_cp = <<>>
    /\ original_cp = <<>>
    /\ error = None
    /\ calls = <<>>
    /\ result = <<>>
    /\ exit_code = "running"
    /\ all_props = <<>>
    /\ remote_cp \in lists
    /\ remote_mode = "unset"
    /\ run = 1
    /\ first = NoFirst

InitWith(lists) == JobStarted(lists) /\ ServiceStarted

Init == InitWith(ExistingListsRun)

\* the reconciler's inputs at their full bounds
InitReconcile == InitWith(ExistingLists)

\* Lines 190-209: argument parsing and stdin.  SystemExit is no Exception:
\* the except block does not run and nothing is printed to stdout.
ReadInputFrom(ids, updates) ==
    /\ pc = "start"
    /\ \/ /\ pc' = "done"
          /\ exit_code' = "1"
          /\ UNCHANGED <<device_id, properties, result>>
       \/ \E id \in ids :
             /\ device_id' = id
             /\ \/ /\ Fatal("invalid JSON")
                   /\ UNCHANGED properties
                \/ \E props \in updates :
                      /\ properties' = props
                      /\ pc' = "authenticate"
                      /\ UNCHANGED <<result, exit_code>>
    /\ UNCHANGED <<device, lookup, typed_cp, string_cp, original_cp, error, calls,
                   all_props, remoteVars>>
    /\ UNCHANGED serviceVars

ReadInput == ReadInputFrom(Identifiers, UpdateListsRun)

\* Line 212: api.authenticate()
Authenticate ==
    /\ pc = "authenticate"
    /\ \/ /\ calls' = Append(calls, Call("main", "authenticate", "", "", "", NoPayload, "ok"))
          /\ pc' = "fetch_id"
          /\ UNCHANGED <<result, exit_code>>
       \/ /\ calls' = Append(calls, Call("main", "authenticate", "", "", "", NoPayload, "error"))
          /\ Fatal("authentication failed")
    /\ UNCHANGED <<device_id, properties, device, lookup, typed_cp, string_cp,
                   original_cp, error, all_props, remoteVars>>
    /\ UNCHANGED serviceVars

\* name searched before the serial number
NextSearch_NameFirst(by) == IF by = "id" THEN "fetch_name"
                            ELSE IF by = "name" THEN "fetch_serialNumber"
                            ELSE "not_found"

\* fetch_device returns without a device instead of raising
NextSearch_ReturnsNone(by) == IF by = "id" THEN "fetch_serialNumber"
                              ELSE IF by = "serialNumber" THEN "fetch_name"
                              ELSE "build_property_lookup"

\* the field fetch_device searches after `by` came back empty
NextSearch(by) == IF by = "id" THEN "fetch_serialNumber"
                  ELSE IF by = "serialNumber" THEN "fetch_name"
                  ELSE "not_found"

\* Lines 25-44: one api.get('Device', search={by: device_id}) of fetch_device
FetchDeviceQuery(by) ==
    /\ pc = "fetch_" \o by
    /\ \/ \* the query raises
          /\ calls' = Append(calls, Call("fetch_device", "get", "Device", by, device_id,
                                         NoPayload, "error"))
          /\ Fatal("transport error")
          /\ UNCHANGED device
       \/ \* the remote's device matches: devices[0] is returned
          /\ RemoteDevice[by] = device_id
          /\ device' = Device(remote_cp)
          /\ calls' = Append(calls, Call("fetch_device", "get", "Device", by, device_id,
                                         NoPayload, "ok"))
          /\ pc' = "build_property_lookup"
          /\ UNCHANGED <<result, exit_code>>
       \/ \* empty answer: next search, or RuntimeError after the last one
          /\ RemoteDevice[by] # device_id
          /\ calls' = Append(calls, Call("fetch_device", "get", "Device", by, device_id,
                                         NoPayload, "empty"))
          /\ IF NextSearch(by) = "not_found"
             THEN Fatal("Device not found by id/serial/name: " \o device_id)
             ELSE pc' = NextSearch(by) /\ UNCHANGED <<result, exit_code>>
          /\ UNCHANGED device
    /\ UNCHANGED <<device_id, properties, lookup, typed_cp, string_cp, original_cp, error,
                   all_props, remoteVars>>
    /\ UNCHANGED serviceVars

\* Line 217 / 60: api.get('Property') of build_property_lookup.  The catalog
\* is the same in a repeated invocation.
BuildPropertyLookup ==
    /\ pc = "build_property_lookup"
    /\ \/ /\ calls' = Append(calls, Call("build_property_lookup", "get", "Property", "", "",
                                         NoPayload, "error"))
          /\ Fatal("transport error")
          /\ UNCHANGED all_props
       \/ \E catalog \in Catalogs :
             /\ run = 2 => build_property_lookup(catalog) = first.lookup
             /\ calls' = Append(calls, Call("build_property_lookup", "get", "Property", "", "",
                                            NoPayload, "ok"))
             /\ all_props' = catalog
             /\ pc' = "build_lookup"
             /\ UNCHANGED <<result, exit_code>>
    /\ UNCHANGED <<device_id, properties, device, lookup, typed_cp, string_cp, original_cp,
                   error, remoteVars>>
    /\ UNCHANGED serviceVars

\* Lines 61-78: the loop over PROP_NAME_MAP; the function returns the lookup
BuildLookup ==
    /\ pc = "build_lookup"
    /\ lookup' = build_property_lookup(all_props)
    /\ all_props' = <<>>
    /\ pc' = "update_properties"
    /\ UNCHANGED <<device_id, properties, device, typed_cp, string_cp, original_cp, error,
                   calls, result, exit_code, remoteVars>>
    /\ UNCHANGED serviceVars

\* Line 218 / 94-158: update_properties normalizes the device's entries in
\* place and returns the typed list, the string list and the original list
UpdateProperties ==
    /\ pc = "update_properties"
    /\ LET r == update_properties(device, properties, lookup)
       IN  /\ typed_cp' = r.typed
           /\ string_cp' = r.string
           /\ original_cp' = r.original
           /\ device' = [device EXCEPT !.customProperties = r.original]
    /\ pc' = "attempt1"
    /\ UNCHANGED <<device_id, properties, lookup, error, calls, result, exit_code,
                   all_props, remoteVars>>
    /\ UNCHANGED serviceVars

\* attempt 2 issued whatever attempt 1 returned
NeedAttempt2_Always(err) == TRUE

\* Line 231: `if error:` before attempt 2
NeedAttempt2(err) == err # None

\* Line 243: `if error:` before attempt 3
NeedAttempt3(err) == err # None

\* the verification read left out
AfterLadder_NoPostFetch == "print_result"

\* Lines 272-273: every exit of the ladder falls through to post_fetch
AfterLadder == "post_fetch"

\* the payload of attempt k
Attempt1Payload == MinimalPayload(device, string_cp)

Attempt2Payload == MinimalPayload(device, typed_cp)

Attempt3Payload == FullPayload(device, string_cp)

\* what the remote may answer to the k-th write: anything in the first
\* invocation; in a repeated one it decides as it did the first time
Verdicts(k) == IF run = 1 THEN BOOLEAN ELSE {k = first.writes}

\* what an api.set does to the remote: nothing when it is rejected
Remote(ok, payload) ==
    IF ok
    THEN /\ remote_mode' \in (IF remote_mode = "unset" THEN RemoteModes ELSE {remote_mode})
         /\ remote_cp' = RemoteApply(remote_mode', remote_cp, payload.customProperties)
    ELSE UNCHANGED <<remote_cp, remote_mode>>

\* no write at all when the string list is empty
Attempt1_SkipsEmpty ==
    /\ pc = "attempt1"
    /\ IF string_cp = <<>>
       THEN /\ pc' = AfterLadder
            /\ UNCHANGED <<calls, error, remote_cp, remote_mode>>
       ELSE \E ok \in Verdicts(1) :
          /\ calls' = Append(calls, Call("main", "set", "Device", "", "", Attempt1Payload,
                                         IF ok THEN "ok" ELSE "error"))
          /\ error' = IF ok THEN None ELSE "set rejected (1)"
          /\ Remote(ok, Attempt1Payload)
          /\ pc' = IF NeedAttempt2(error') THEN "attempt2" ELSE AfterLadder
    /\ UNCHANGED <<device_id, properties, device, lookup, typed_cp, string_cp,
                   original_cp, result, exit_code, all_props, run, first>>
    /\ UNCHANGED serviceVars

\* Lines 222-228: api.set with the minimal string payload
Attempt1 ==
    /\ pc = "attempt1"
    /\ \E ok \in Verdicts(1) :
          /\ calls' = Append(calls, Call("main", "set", "Device", "", "", Attempt1Payload,
                                         IF ok THEN "ok" ELSE "error"))
          /\ error' = IF ok THEN None ELSE "set rejected (1)"
          /\ Remote(ok, Attempt1Payload)
          /\ pc' = IF NeedAttempt2(error') THEN "attempt2" ELSE AfterLadder
    /\ UNCHANGED <<device_id, properties, device, lookup, typed_cp, string_cp,
                   original_cp, result, exit_code, all_props, run, first>>
    /\ UNCHANGED serviceVars

\* Lines 231-240: api.set with the minimal typed payload
Attempt2 ==
    /\ pc = "attempt2"
    /\ \E ok \in Verdicts(2) :
          /\ calls' = Append(calls, Call("main", "set", "Device", "", "", Attempt2Payload,
                                         IF ok THEN "ok" ELSE "error"))
          /\ error' = IF ok THEN None ELSE "set rejected (2)"
          /\ Remote(ok, Attempt2Payload)
          /\ pc' = IF NeedAttempt3(error') THEN "attempt3" ELSE AfterLadder
    /\ UNCHANGED <<device_id, properties, device, lookup, typed_cp, string_cp,
                   original_cp, result, exit_code, all_props, run, first>>
    /\ UNCHANGED serviceVars

\* Lines 243-270: api.set with {id, name} and the string list
Attempt3 ==
    /\ pc = "attempt3"
    /\ \E ok \in Verdicts(3) :
          /\ calls' = Append(calls, Call("main", "set", "Device", "", "", Attempt3Payload,
                                         IF ok THEN "ok" ELSE "error"))
          /\ error' = IF ok THEN None ELSE "set rejected (3)"
          /\ Remote(ok, Attempt3Payload)
    /\ pc' = AfterLadder
    /\ UNCHANGED <<device_id, properties, device, lookup, typed_cp, string_cp,
                   original_cp, result, exit_code, all_props, run, first>>
    /\ UNCHANGED serviceVars

\* the id post_fetch searches for (line 273: post_fetch(api, device_id))
PostFetchArg == device_id

\* Lines 172-185, 273: the verification read; an exception of api.get leaves
\* main through the except block
PostFetch ==
    /\ pc = "post_fetch"
    /\ \/ /\ calls' = Append(calls, Call("post_fetch", "get", "Device", "id", PostFetchArg,
                                         NoPayload, "error"))
          /\ Fatal("transport error")
       \/ /\ calls' = Append(calls, Call("post_fetch", "get", "Device", "id", PostFetchArg,
                                         NoPayload,
                                         IF RemoteDevice.id = PostFetchArg THEN "ok" ELSE "empty"))
          /\ pc' = "print_result"
          /\ UNCHANGED <<result, exit_code>>
    /\ UNCHANGED <<device_id, properties, device, lookup, typed_cp, string_cp,
                   original_cp, error, all_props, remoteVars>>
    /\ UNCHANGED serviceVars

\* Lines 274-275: the result line; main returns
PrintResult ==
    /\ pc = "print_result"
    /\ result' = Append(result, FinalResult(error, device_id))
    /\ exit_code' = "0"
    /\ pc' = "done"
    /\ UNCHANGED <<device_id, properties, device, lookup, typed_cp, string_cp,
                   original_cp, error, calls, all_props, remoteVars>>
    /\ UNCHANGED serviceVars

\* the same command run again after a run that reported success: a new
\* process with the same arguments and the same stdin
Rerun ==
    /\ pc = "done"
    /\ run = 1
    /\ exit_code = "0"
    /\ result[Len(result)].success
    /\ run' = 2
    /\ first' = [cp |-> remote_cp, writes |-> Len(Writes), lookup |-> lookup]
    /\ pc' = "authenticate"
    /\ device' = NoDevice
    /\ lookup' = NoLookup
    /\ typed_cp' = <<>>
    /\ string_cp' = <<>>
    /\ original_cp' = <<>>
    /\ error' = None
    /\ calls' = <<>>
    /\ result' = <<>>
    /\ exit_code' = "running"
    /\ UNCHANGED <<device_id, properties, all_props, remote_cp, remote_mode>>
    /\ UNCHANGED serviceVars

\* the steps of one invocation after its input is read
Steps ==
    \/ Authenticate
    \/ \E by \in {"id", "serialNumber", "name"} : FetchDeviceQuery(by)
    \/ BuildPropertyLookup
    \/ BuildLookup
    \/ UpdateProperties
    \/ Attempt1
    \/ Attempt2
    \/ Attempt3
    \/ PostFetch
    \/ PrintResult

Next == ReadInput \/ Steps

\* the device's own id as the only identifier given
OwnIdentifier == {RemoteDevice.id}

\* two invocations for the device's own id
NextTwice == ReadInputFrom(OwnIdentifier, UpdateListsRun) \/ Steps \/ Rerun

\* one invocation up to the return of update_properties, for the device's
\* own id
NextReconcile ==
    \/ ReadInputFrom(OwnIdentifier, UpdateLists)
    \/ Authenticate
    \/ \E by \in {"id", "serialNumber", "name"} : FetchDeviceQuery(by)
    \/ BuildPropertyLookup
    \/ BuildLookup
    \/ UpdateProperties

Spec == Init /\ [][Next]_vars

\* two invocations in a row
SpecTwice == Init /\ [][NextTwice]_vars

\* the resolver and the reconciler on their own
SpecReconcile == InitReconcile /\ [][NextReconcile]_vars

-----------------------------------------------------------------------------
(* check_rate_limit, statement by statement *)

InitService == JobStarted({<<>>}) /\ ServiceStarted

\* time passes
Tick ==
    /\ \E d \in TickSteps :
          /\ now + d <= MaxTime
          /\ now' = now + d
    /\ UNCHANGED <<rate_limit_cache, inv, window>>
    /\ UNCHANGED <<handlerVars, jobVars>>

\* Line 424: current_time = time.time()
RlEnter(t, ip) ==
    /\ inv[t].pc = "idle"
    /\ inv' = [inv EXCEPT ![t] = [IdleThread(NoReturn) EXCEPT
                                     !.pc = "entered", !.client_ip = ip,
                                     !.current_time = now]]
    /\ UNCHANGED <<now, rate_limit_cache, window>>
    /\ UNCHANGED <<handlerVars, jobVars>>

\* Lines 426-427: the membership test and the read of the entry
RlRead(t) ==
    /\ inv[t].pc = "entered"
    /\ LET ip == inv[t].client_ip
           present == ip \in DOMAIN rate_limit_cache
       IN  inv' = [inv EXCEPT ![t] = [@ EXCEPT
                      !.pc = "read", !.present = present,
                      !.count = IF present THEN rate_limit_cache[ip].count ELSE 0,
                      !.window_start = IF present THEN rate_limit_cache[ip].window_start
                                       ELSE 0]]
    /\ UNCHANGED <<now, rate_limit_cache, window>>
    /\ UNCHANGED <<handlerVars, jobVars>>

\* Lines 430-446: the decision on the values read, the write and the return
RlReturn(t) ==
    /\ inv[t].pc = "read"
    /\ LET l == inv[t]
           d == RateDecision(l.present, l.count, l.window_start, l.current_time)
       IN  /\ rate_limit_cache' = IF d.write THEN (l.client_ip :> d.entry) @@ rate_limit_cache
                                  ELSE rate_limit_cache
           /\ window' = IF d.allowed THEN CountAllowed(window, l.client_ip, l.current_time)
                        ELSE window
           /\ inv' = [inv EXCEPT ![t] = [IdleThread([allowed |-> d.allowed, msg |-> d.msg])
                                            EXCEPT !.client_ip = l.client_ip,
                                                   !.current_time = l.current_time]]
    /\ UNCHANGED now
    /\ UNCHANGED <<handlerVars, jobVars>>

\* one request after the other
NextRate ==
    \/ Tick
    \/ \E ip \in ClientIPs : RlEnter(1, ip)
    \/ RlRead(1)
    \/ RlReturn(1)

SpecRate == InitService /\ [][NextRate]_vars

\* the limiter after `count` requests of one client at time 0
LimiterAfter(ip, count) ==
    /\ now = 0
    /\ rate_limit_cache = (ip :> [count |-> count, window_start |-> 0])
    /\ inv = [t \in Threads |-> IdleThread(NoReturn)]
    /\ window = (ip :> [start |-> 0, allowed |-> count])

InitRace ==
    /\ JobStarted({<<>>})
    /\ HandlerIdle(TRUE)
    /\ \/ LimiterStarted
       \/ \E ip \in ClientIPs, count \in 1..RATE_LIMIT_REQUESTS : LimiterAfter(ip, count)

\* a thread takes up one request
RaceEnter(t, ip) ==
    /\ inv[t].ret = NoReturn
    /\ RlEnter(t, ip)

\* two requests served by two threads, their statements interleaved
NextRace ==
    \/ Tick
    \/ \E t \in Threads, ip \in ClientIPs : RaceEnter(t, ip)
    \/ \E t \in Threads : RlRead(t)
    \/ \E t \in Threads : RlReturn(t)

SpecRace == InitRace /\ [][NextRace]_vars

-----------------------------------------------------------------------------
(* The HTTP handlers *)

MsgCredentials == <<"Invalid", "credentials", "or", "API", "key">>
MsgParameters  == <<"Missing", "required", "parameters:", "deviceId,", "properties">>
MsgTransport   == <<"transport", "error">>

\* a response with success = False
Failure(status, msg) == [status |-> status, success |-> FALSE, error |-> msg]

\* the except block of the handler (lines 1242-1257)
Http500 == resp' = Failure(500, MsgTransport) /\ hpc' = "responded"

\* a request reaches one of the two handlers
HttpReceive(ips, endpoints, bodies) ==
    /\ hpc = "idle"
    /\ \E ip \in ips, ep \in endpoints, body \in bodies :
          req' = [client_ip |-> ip, endpoint |-> ep, body |-> body,
                  deviceId |-> "", properties |-> <<>>]
    /\ hpc' = "require_valid_api_key"
    /\ UNCHANGED <<key_vault, gate, hdevice, prop_lookup, resp>>
    /\ UNCHANGED <<now, rate_limit_cache, inv, window, jobVars>>

\* Lines 1079-1088 / 1672-1681: require_valid_api_key and the response to a
\* request it rejects
RequireValidApiKey ==
    /\ hpc = "require_valid_api_key"
    /\ \E outcome \in VaultOutcomes(BodyKey(req.body)) :
          LET r == require_valid_api_key(rate_limit_cache, req, now, key_vault, outcome)
          IN  /\ gate' = r.gate
              /\ rate_limit_cache' = r.cache
              /\ window' = IF r.allowed THEN CountAllowed(window, req.client_ip, now)
                           ELSE window
              /\ IF r.gate.valid
                 THEN /\ hpc' = IF req.endpoint = "update-device-properties"
                                THEN "get_client_credentials" ELSE "sync_to_exchange"
                      /\ UNCHANGED resp
                 ELSE /\ resp' = Failure(status_code(r.gate.error_msg), r.gate.error_msg)
                      /\ hpc' = "responded"
    /\ UNCHANGED <<key_vault, req, hdevice, prop_lookup>>
    /\ UNCHANGED <<now, inv, jobVars>>

\* Lines 1091-1108: the three secrets of the client read from Key Vault
GetClientCredentials ==
    /\ hpc = "get_client_credentials"
    /\ \/ hpc' = "read_parameters" /\ UNCHANGED resp
       \/ resp' = Failure(401, MsgCredentials) /\ hpc' = "responded"
    /\ UNCHANGED <<key_vault, req, gate, hdevice, prop_lookup>>
    /\ UNCHANGED <<now, rate_limit_cache, inv, window, jobVars>>

\* Lines 1113-1125: deviceId and properties of the body
ReadParameters ==
    /\ hpc = "read_parameters"
    /\ \E d \in {RemoteDevice.id, "zz", ""}, ps \in UpdateLists :
          /\ req' = [req EXCEPT !.deviceId = d, !.properties = ps]
          /\ IF d = "" \/ ps = <<>>
             THEN resp' = Failure(400, MsgParameters) /\ hpc' = "responded"
             ELSE hpc' = "authenticate" /\ UNCHANGED resp
    /\ UNCHANGED <<key_vault, gate, hdevice, prop_lookup>>
    /\ UNCHANGED <<now, rate_limit_cache, inv, window, jobVars>>

\* Lines 1129-1130: api.authenticate()
HttpAuthenticate ==
    /\ hpc = "authenticate"
    /\ \/ /\ calls' = Append(calls, Call("update_device_properties", "authenticate", "", "",
                                         "", NoPayload, "ok"))
          /\ hpc' = "fetch_device"
          /\ UNCHANGED resp
       \/ /\ calls' = Append(calls, Call("update_device_properties", "authenticate", "", "",
                                         "", NoPayload, "error"))
          /\ Http500
    /\ UNCHANGED <<key_vault, req, gate, hdevice, prop_lookup>>
    /\ UNCHANGED <<now, rate_limit_cache, inv, window, jobButCalls>>

\* Lines 1134-1145: api.get('Device', search={'id': device_id})
HttpFetchDevice ==
    /\ hpc = "fetch_device"
    /\ \/ /\ calls' = Append(calls, Call("update_device_properties", "get", "Device", "id",
                                         req.deviceId, NoPayload, "error"))
          /\ Http500
          /\ UNCHANGED hdevice
       \/ /\ RemoteDevice.id = req.deviceId
          /\ calls' = Append(calls, Call("update_device_properties", "get", "Device", "id",
                                         req.deviceId, NoPayload, "ok"))
          /\ hdevice' = Device(remote_cp)
          /\ hpc' = "fetch_properties"
          /\ UNCHANGED resp
       \/ /\ RemoteDevice.id # req.deviceId
          /\ calls' = Append(calls, Call("update_device_properties", "get", "Device", "id",
                                         req.deviceId, NoPayload, "empty"))
          /\ resp' = Failure(404, <<"Device", "not", "found:", req.deviceId>>)
          /\ hpc' = "responded"
          /\ UNCHANGED hdevice
    /\ UNCHANGED <<key_vault, req, gate, prop_lookup>>
    /\ UNCHANGED <<now, rate_limit_cache, inv, window, jobButCalls>>

\* Lines 1150-1174: api.get('Property') and the lookup built from it
HttpBuildLookup ==
    /\ hpc = "fetch_properties"
    /\ \/ /\ calls' = Append(calls, Call("update_device_properties", "get", "Property", "",
                                         "", NoPayload, "error"))
          /\ Http500
          /\ UNCHANGED prop_lookup
       \/ \E catalog \in Catalogs :
             /\ calls' = Append(calls, Call("update_device_properties", "get", "Property",
                                            "", "", NoPayload, "ok"))
             /\ prop_lookup' = build_property_lookup(catalog)
             /\ hpc' = "merge"
             /\ UNCHANGED resp
    /\ UNCHANGED <<key_vault, req, gate, hdevice>>
    /\ UNCHANGED <<now, rate_limit_cache, inv, window, jobButCalls>>

\* Lines 1178-1219: the updates merged into the device's list
HttpMerge ==
    /\ hpc = "merge"
    /\ hdevice' = [hdevice EXCEPT !.customProperties =
                      custom_properties(@, req.properties, prop_lookup, 1)]
    /\ hpc' = "set"
    /\ UNCHANGED <<key_vault, req, gate, prop_lookup, resp>>
    /\ UNCHANGED <<now, rate_limit_cache, inv, window, jobVars>>

\* Lines 1223-1240: api.set('Device', device) and the response
HttpSet ==
    /\ hpc = "set"
    /\ \/ /\ calls' = Append(calls, Call("update_device_properties", "set", "Device", "",
                                         "", hdevice, "ok"))
          /\ resp' = [status |-> 200, success |-> TRUE, error |-> NoMsg]
          /\ hpc' = "responded"
       \/ /\ calls' = Append(calls, Call("update_device_properties", "set", "Device", "",
                                         "", hdevice, "error"))
          /\ Http500
    /\ UNCHANGED <<key_vault, req, gate, hdevice, prop_lookup>>
    /\ UNCHANGED <<now, rate_limit_cache, inv, window, jobButCalls>>

\* the gate of both handlers, for every kind of request, with Key Vault
\* configured or not, the cache empty or used up for one client
InitGate ==
    /\ JobStarted({<<>>})
    /\ \E on \in BOOLEAN : HandlerIdle(on)
    /\ LimiterStarted \/ LimiterAfter("10.0.0.1", RATE_LIMIT_REQUESTS)

NextGate ==
    \/ HttpReceive(ClientIPs, Endpoints, BodyPool)
    \/ RequireValidApiKey

SpecGate == InitGate /\ [][NextGate]_vars

\* update_device_properties from the request to the response
InitHttp ==
    /\ JobStarted(ExistingLists)
    /\ HandlerIdle(TRUE)
    /\ LimiterStarted

\* the requests update_device_properties is driven with: one client, with
\* the known key or with no key at all
UpdateClients == {"10.0.0.1"}

UpdateEndpoints == {"update-device-properties"}

UpdateBodies == {JsonBody({"apiKey"}, KnownKey, NoKey), JsonBody({}, NoKey, NoKey)}

NextHttp ==
    \/ HttpReceive(UpdateClients, UpdateEndpoints, UpdateBodies)
    \/ RequireValidApiKey
    \/ GetClientCredentials
    \/ ReadParameters
    \/ HttpAuthenticate
    \/ HttpFetchDevice
    \/ HttpBuildLookup
    \/ HttpMerge
    \/ HttpSet

SpecHttp == InitHttp /\ [][NextHttp]_vars

-----------------------------------------------------------------------------
(* Properties of the write ladder *)

LastResult == result[Len(result)]

IsMinimalString(p) ==
    /\ p.keys = {"id", "customProperties"}
    /\ p.id = device.id
    /\ p.customProperties = string_cp

IsMinimalTyped(p) ==
    /\ p.keys = {"id", "customProperties"}
    /\ p.id = device.id
    /\ p.customProperties = typed_cp

IsFullString(p) ==
    /\ p.keys = {"id", "name", "customProperties"}
    /\ p.id = device.id
    /\ p.name = device.name
    /\ p.customProperties = string_cp

\* the writes issued so far follow the documented order
InLadderOrder(w) ==
    /\ Len(w) >= 1 => IsMinimalString(w[1].payload)
    /\ Len(w) >= 2 => IsMinimalTyped(w[2].payload)
    /\ Len(w) >= 3 => IsFullString(w[3].payload)

\* C1: in one invocation the writes are issued in the order Minimal-String,
\* Minimal-Typed, Full-String; every write but the last one issued has
\* returned an error (so none follows a success), and at most 3 are issued.
C1_LadderOrder ==
    /\ Len(Writes) <= 3
    /\ InLadderOrder(Writes)
    /\ \A i \in 1..(Len(Writes) - 1) : Writes[i].res = "error"

\* C1 witness: a finished run that needed all three attempts, the third one
\* accepted, with typed and string lists that differ
C1_Witness ==
    /\ pc = "done"
    /\ Len(Writes) = 3
    /\ Writes[3].res = "ok"
    /\ typed_cp # string_cp

\* C2: no two writes of one invocation carry the same payload
C2_DistinctPayloads ==
    \A i, j \in 1..Len(Writes) : i # j => Writes[i].payload # Writes[j].payload

\* C3: a failed attempt 1 or 2 is not fatal: if some write succeeded the
\* final result has success = true and no error, and success = false is
\* reported only when all three writes failed.
C3_FailureNotFatal ==
    (pc = "done" /\ Len(Writes) > 0) =>
        /\ Len(result) = 1
        /\ (\E i \in 1..Len(Writes) : Writes[i].res = "ok") =>
               (LastResult.success /\ LastResult.error = None)
        /\ ~LastResult.success =>
               (Len(Writes) = 3 /\ \A i \in 1..3 : Writes[i].res = "error")

\* C4: the reported success is the outcome of the last write, whatever the
\* verification read returned or raised.
C4_VerificationObservational ==
    (pc = "done" /\ Len(Writes) > 0) =>
        (LastResult.success <=> Writes[Len(Writes)].res = "ok")

\* a Device read issued after a write: the verification read
VerifyReads ==
    {i \in 1..Len(calls) :
        /\ calls[i].op = "get"
        /\ calls[i].entity = "Device"
        /\ \E j \in 1..(i - 1) : IsWrite(calls[j])}

\* the ladder has terminated within the first n calls
LadderTerminatedBy(n) ==
    LET w == SelectSeq(SubSeq(calls, 1, n), IsWrite)
    IN  Len(w) > 0 /\ (w[Len(w)].res = "ok" \/ Len(w) = 3)

\* C5: once the ladder has terminated exactly one verification read is
\* issued, after the last write and before the result is printed; none is
\* issued while the ladder is still running.
C5_OneVerificationRead ==
    /\ \A i \in VerifyReads :
          /\ LadderTerminatedBy(i - 1)
          /\ \A j \in 1..Len(calls) : IsWrite(calls[j]) => j < i
    /\ (pc \in {"attempt1", "attempt2", "attempt3", "post_fetch"}) =>
          (VerifyReads = {} /\ result = <<>>)
    /\ (Len(Writes) > 0 /\ (pc \in {"print_result", "done"} \/ result # <<>>)) =>
          (Cardinality(VerifyReads) = 1 /\ VerifyReads = {Len(calls)})

\* C5 witness: finished runs exist with the read issued after a ladder that
\* succeeded at once; the other ladder outcomes are those of C1's witness
C5_Witness ==
    /\ pc = "done"
    /\ Len(Writes) = 1
    /\ Writes[1].res = "ok"
    /\ Cardinality(VerifyReads) = 1
    /\ Len(result) = 1

\* C6: the attempts count of the final result is the number of writes issued
C6_AttemptsCount ==
    (pc = "done" /\ Len(Writes) > 0) =>
        ("attempts" \in LastResult.keys /\ LastResult.attempts = Len(Writes))

\* the remote accepted the writes of the Full-String shape and no other
OnlyFullStringAccepted ==
    \A i \in 1..Len(Writes) :
        Writes[i].res = "ok" <=> Writes[i].payload.keys = {"id", "name", "customProperties"}

\* C7: against a remote accepting only the Full-String shape the run issues
\* the three writes in order and reports success with an attempts count of 3
C7_OnlyFullStringRemote ==
    (pc = "done" /\ Len(Writes) > 0 /\ OnlyFullStringAccepted) =>
        /\ Len(Writes) = 3
        /\ InLadderOrder(Writes)
        /\ LastResult.success
        /\ "attempts" \in LastResult.keys
        /\ LastResult.attempts = 3

-----------------------------------------------------------------------------
(* Properties of the reconciler *)

\* the property ids the updates target
TargetedIds == {lookup[p.key].id : p \in {properties[i] : i \in
                   {k \in 1..Len(properties) : properties[k].key \in DOMAIN lookup}}}

Reconciled == pc \in {"attempt1", "attempt2", "attempt3", "post_fetch",
                      "print_result"}

\* C8: every existing entry whose property id no update targets is part of
\* the customProperties of every write, unchanged.
C8_Preservation ==
    \A w \in 1..Len(Writes) : \A k \in 1..Len(original_cp) :
        original_cp[k].pid \notin TargetedIds =>
            \E m \in 1..Len(Writes[w].payload.customProperties) :
                Writes[w].payload.customProperties[m] = original_cp[k]

NoDuplicateIds(list) ==
    \A i, j \in 1..Len(list) : i # j => list[i].pid # list[j].pid

\* C9: the typed list and the string list hold at most one entry per
\* property id, also when the existing collection repeats a property id.
C9_NoDuplicates == NoDuplicateIds(typed_cp) /\ NoDuplicateIds(string_cp)

\* C9 witness: the device holds two entries of P2, an update targets P2 and
\* another one P1 or P3
C9_Witness ==
    /\ Reconciled
    /\ Len(original_cp) = 2
    /\ original_cp[1].pid = "P2" /\ original_cp[2].pid = "P2"
    /\ Len(typed_cp) = 2
    /\ \E i \in 1..2 : typed_cp[i].pid = "P2"

\* C10: update_properties leaves no `data` key in the device's entries; an
\* entry that had only `data` gets value = data, one that had both keeps
\* its value; no entry of the typed or the string list carries `data`.
C10_LegacyMigration ==
    [][pc = "update_properties" =>
        /\ Len(original_cp') = Len(device.customProperties)
        /\ device'.customProperties = original_cp'
        /\ \A i \in 1..Len(device.customProperties) :
              LET old == device.customProperties[i]
                  new == original_cp'[i]
              IN  /\ "data" \notin new.keys
                  /\ new.data = NullV
                  /\ "data" \in old.keys =>
                        /\ "value" \in new.keys
                        /\ new.value = IF "value" \in old.keys THEN old.value ELSE old.data
                  /\ new.pid = old.pid /\ new.id = old.id /\ new.version = old.version
        /\ \A i \in 1..Len(typed_cp') : "data" \notin typed_cp'[i].keys
        /\ \A i \in 1..Len(string_cp') : "data" \notin string_cp'[i].keys
    ]_vars

\* C10 witness: after reconciliation the device holds the migrated legacy
\* entry (value "legacy") and the entry that had both fields (value "keep"),
\* and an update replaced that property
C10_Witness ==
    /\ pc = "attempt1"
    /\ \E i \in 1..Len(original_cp) : original_cp[i].value = StrV("legacy")
    /\ \E i \in 1..Len(original_cp) : original_cp[i].value = StrV("keep")
    /\ \E i \in 1..Len(typed_cp) : typed_cp[i].pid = "P2"

-----------------------------------------------------------------------------
(* Properties of the reconciler, continued *)

\* positions of the updates whose key the lookup holds
KnownIdx == {i \in 1..Len(properties) : properties[i].key \in DOMAIN lookup}

\* where the entry of update i stands in the output lists
Pos(i) == Cardinality({j \in KnownIdx : j <= i})

\* C11: update_properties called again on the device it has normalized in
\* place, with the same updates and lookup, returns the same typed and
\* string lists as the first call.
C11_ReconcileIdempotent ==
    Reconciled =>
        LET again == update_properties(device, properties, lookup)
        IN  again.typed = typed_cp /\ again.string = string_cp

\* C11 witness: the first call migrated a legacy entry and dropped a `data`
\* field, and an update reused that property's entry
C11_Witness ==
    /\ pc = "attempt1"
    /\ Len(original_cp) = 2
    /\ original_cp[1].value = StrV("legacy")
    /\ original_cp[2].value = StrV("keep")
    /\ \E i \in 1..Len(typed_cp) : typed_cp[i].pid = "P2" /\ typed_cp[i].id = "pv2"

\* C12: the command run twice with the same updates for the same device,
\* the remote deciding the writes the same way both times: after the second
\* successful run the remote holds the collection it held after the first.
C12_ApplyIdempotent ==
    (run = 2 /\ pc = "done" /\ Len(result) = 1 /\ exit_code = "0") =>
        (LastResult.success => remote_cp = first.cp)

\* C12 witness: a second successful run against a remote that keeps the
\* entries not written, holding an untouched entry and the written one
C12_Witness ==
    /\ run = 2
    /\ pc = "done"
    /\ exit_code = "0"
    /\ LastResult.success
    /\ remote_mode = "upsert"
    /\ Len(remote_cp) = 2
    /\ Len(string_cp) = 1
    /\ remote_cp[1].id = "pv1"

\* C13: an update whose key the lookup lacks yields no entry; both lists
\* hold exactly one entry per update whose key the lookup holds, in the
\* order of the updates.
C13_UnknownKey ==
    Reconciled =>
        /\ Len(typed_cp) = Cardinality(KnownIdx)
        /\ Len(string_cp) = Cardinality(KnownIdx)
        /\ \A i \in KnownIdx :
              /\ typed_cp[Pos(i)].pid = lookup[properties[i].key].id
              /\ string_cp[Pos(i)].pid = lookup[properties[i].key].id

\* C13 witness: an unknown key ahead of a known one
C13_Witness ==
    /\ Reconciled
    /\ Len(properties) = 2
    /\ properties[1].key \notin DOMAIN lookup
    /\ properties[2].key \in DOMAIN lookup
    /\ Len(typed_cp) = 1

\* C14: an incoming "" gives null in the typed entry and "" in the string
\* entry; any other incoming value is the typed entry's value, unchanged.
C14_EmptyString ==
    Reconciled =>
        \A i \in KnownIdx :
            LET v == properties[i].val
            IN  /\ v = StrV("") =>
                      (typed_cp[Pos(i)].value = NullV /\ string_cp[Pos(i)].value = StrV(""))
                /\ v # StrV("") => typed_cp[Pos(i)].value = v

\* C14 witness: "" and a falsy value that is not "" in one call
C14_Witness ==
    /\ Reconciled
    /\ Len(typed_cp) = 2
    /\ properties[1].val = StrV("")
    /\ properties[2].val \in {BoolV(FALSE), NumV(0)}

\* C15: the string entry's value is a string: "true"/"false" for a boolean,
\* the decimal digits for a number, "" for null, the string itself otherwise.
C15_StringCoercion ==
    Reconciled =>
        \A i \in KnownIdx :
            LET v == properties[i].val
                o == string_cp[Pos(i)].value
            IN  /\ o.t = "str"
                /\ v = BoolV(TRUE) => o.s = "true"
                /\ v = BoolV(FALSE) => o.s = "false"
                /\ v = NumV(14) => o.s = "14"
                /\ v = NumV(0) => o.s = "0"
                /\ v.t = "str" => o.s = v.s
                /\ typed_cp[Pos(i)].value = NullV => o.s = ""

\* C15 witness: a boolean and a two-digit number coerced in one call
C15_Witness ==
    /\ Reconciled
    /\ Len(string_cp) = 2
    /\ properties[1].val = BoolV(FALSE)
    /\ properties[2].val = NumV(14)

\* the existing entry of a property id that update_properties reuses
LastExisting(pid) ==
    LET idx == {i \in 1..Len(original_cp) : original_cp[i].pid = pid}
    IN  original_cp[CHOOSE i \in idx : \A j \in idx : j <= i]

\* C16: an entry whose property id the device already holds carries the
\* existing entry's id and version (where several exist, those of the last
\* one); without a prior entry it carries neither; its property reference
\* is the id and the property-set id of the resolved definition.
C16_IdentityReuse ==
    Reconciled =>
        \A i \in KnownIdx : \A o \in {typed_cp[Pos(i)], string_cp[Pos(i)]} :
            LET info == lookup[properties[i].key]
            IN  /\ "property" \in o.keys
                /\ o.pid = info.id
                /\ o.setId = info.setId
                /\ IF \E k \in 1..Len(original_cp) : original_cp[k].pid = info.id
                   THEN LET e == LastExisting(info.id)
                        IN  /\ o.keys \cap {"id", "version"} = e.keys \cap {"id", "version"}
                            /\ o.id = e.id
                            /\ o.version = e.version
                   ELSE o.keys \cap {"id", "version"} = {} /\ o.id = "" /\ o.version = ""

\* C16 witness: one update reuses the identity of an existing entry, another
\* one has no prior entry
C16_Witness ==
    /\ Reconciled
    /\ Len(typed_cp) = 2
    /\ \E i \in 1..2 : typed_cp[i].id = "pv1" /\ typed_cp[i].version = "v7"
    /\ \E i \in 1..2 : typed_cp[i].keys = {"property", "value"}

-----------------------------------------------------------------------------
(* Properties of the resolver and of the device lookup *)

\* C17: build_property_lookup maps each logical key to the first catalog
\* definition of the configured name and leaves out the keys without one.
C17_Resolver ==
    [][pc = "build_lookup" =>
        /\ pc' = "update_properties"
        /\ DOMAIN lookup' \subseteq DOMAIN PROP_NAME_MAP
        /\ \A k \in DOMAIN PROP_NAME_MAP :
              LET hits == {i \in 1..Len(all_props) : all_props[i].name = PROP_NAME_MAP[k]}
              IN  IF hits = {} THEN k \notin DOMAIN lookup'
                  ELSE /\ k \in DOMAIN lookup'
                       /\ \E i \in hits :
                             /\ \A j \in hits : i <= j
                             /\ lookup'[k].id = all_props[i].id
                             /\ lookup'[k].name = PROP_NAME_MAP[k]
    ]_vars

\* C17 witness: a lookup built from a catalog in which the definition
\* without property set comes first and no definition exists for windowDays
C17_Witness ==
    /\ pc = "update_properties"
    /\ DOMAIN lookup = {"bookable"}
    /\ lookup["bookable"].id = "P3"

\* C18: id and propertySetId of every lookup entry are those of a catalog
\* definition; none is missing.
C18_ResolverGuarantee ==
    \A k \in DOMAIN lookup :
        /\ lookup[k].setId # None
        /\ \E d \in DefPool :
              /\ d.id = lookup[k].id
              /\ "propertySet" \in d.keys
              /\ d.setId = lookup[k].setId

\* the Device searches of fetch_device
Searches == SelectSeq(calls, LAMBDA c : c.site = "fetch_device")

SearchOrder == <<"id", "serialNumber", "name">>

NotFound == Len(Searches) = 3 /\ Searches[3].res = "empty"

\* C19: fetch_device searches by id, serial number and name in that order,
\* each search only after the one before came back empty; the first
\* non-empty answer gives the device; three empty answers raise not-found.
C19_DeviceLookupOrder ==
    /\ Len(Searches) <= 3
    /\ \A i \in 1..Len(Searches) :
          /\ Searches[i].op = "get" /\ Searches[i].entity = "Device"
          /\ Searches[i].by = SearchOrder[i]
          /\ Searches[i].arg = device_id
          /\ i < Len(Searches) => Searches[i].res = "empty"
    /\ device # NoDevice <=>
          (Len(Searches) > 0 /\ Searches[Len(Searches)].res = "ok")
    /\ device # NoDevice => device[Searches[Len(Searches)].by] = device_id
    /\ NotFound =>
          (pc = "done" /\ LastResult.error = "Device not found by id/serial/name: " \o device_id)

\* C19 witness: a device found by the third search, by name
C19_Witness ==
    /\ Len(Searches) = 3
    /\ Searches[3].res = "ok"
    /\ device.name = device_id
    /\ pc = "attempt1"

\* C20: a device found by none of the three searches ends the run at once:
\* success = false with the not-found error, no catalog fetch, no write and
\* no verification read.
C20_LookupFailureFatal ==
    NotFound =>
        /\ pc = "done"
        /\ exit_code = "1"
        /\ Len(result) = 1
        /\ ~LastResult.success
        /\ LastResult.error = "Device not found by id/serial/name: " \o device_id
        /\ Len(calls) = 4
        /\ \A i \in 1..Len(calls) :
              calls[i].op # "set" /\ calls[i].entity # "Property" /\ calls[i].site # "post_fetch"

\* C20 witness: the run for an identifier the remote does not know
C20_Witness ==
    /\ NotFound
    /\ pc = "done"
    /\ device_id = "zz"

-----------------------------------------------------------------------------
(* Properties of the error handling and of the payloads *)

LastCall == calls[Len(calls)]

\* the call issued last raised, and it was the authentication, a device
\* search or the catalog fetch
SetupFailed ==
    /\ Len(calls) > 0
    /\ LastCall.res = "error"
    /\ LastCall.op = "authenticate" \/ LastCall.site \in {"fetch_device", "build_property_lookup"}

\* str(e) of the exception a failed call raised
Raised(c) == IF c.op = "authenticate" THEN "authentication failed"
             ELSE "transport error"

\* C21: when authentication, a device search or the catalog fetch raises,
\* the run ends at once: no write is issued, exactly one result is printed,
\* with success = false and the raised exception's message as its error.
C21_SetupFailureFatal ==
    SetupFailed =>
        /\ pc = "done"
        /\ exit_code = "1"
        /\ Writes = <<>>
        /\ Len(result) = 1
        /\ ~LastResult.success
        /\ "error" \in LastResult.keys
        /\ LastResult.error = Raised(LastCall)

\* C21 witness: the catalog fetch raised after the device was found by its
\* serial number
C21_Witness ==
    /\ SetupFailed
    /\ LastCall.site = "build_property_lookup"
    /\ device.serialNumber = device_id
    /\ LastResult.error = "transport error"

\* C22: every run that ends has printed exactly one result, which carries
\* success and a message and, when success is false, an error; after three
\* failed writes that error is the one attempt 3 raised.
C22_OneFinalResult ==
    pc = "done" =>
        /\ Len(result) = 1
        /\ {"success", "message"} \subseteq LastResult.keys
        /\ ~LastResult.success => ("error" \in LastResult.keys /\ LastResult.error # None)
        /\ (Len(Writes) = 3 /\ Writes[3].res = "error" /\ LastCall.res # "error") =>
               LastResult.error = "set rejected (3)"

\* C23: the payloads of attempts 1 and 2 have exactly the keys id and
\* customProperties, the payload of attempt 3 has no key besides id, name
\* and customProperties, whatever else the fetched device carries.
C23_NoPassthrough ==
    \A i \in 1..Len(Writes) :
        /\ i <= 2 => Writes[i].payload.keys = {"id", "customProperties"}
        /\ i = 3 => Writes[i].payload.keys \subseteq {"id", "name", "customProperties"}

\* C23 witness: all three payloads sent for a device that carries a serial
\* number besides id and name
C23_Witness ==
    /\ Len(Writes) = 3
    /\ "serialNumber" \in device.keys
    /\ device.serialNumber # ""

\* C26: the verification read searches by id for the id the write payloads
\* carried, the id of the resolved device.
C26_VerifySameId ==
    \A i \in VerifyReads :
        /\ calls[i].by = "id"
        /\ calls[i].arg = device.id
        /\ \A w \in 1..Len(Writes) : Writes[w].payload.id = calls[i].arg

\* the run has passed attempt 1
PastAttempt1 ==
    \/ pc \in {"attempt2", "attempt3", "post_fetch", "print_result"}
    \/ \E i \in 1..Len(calls) : calls[i].site = "post_fetch"

\* C27: every run that reaches the ladder issues attempt 1 with the string
\* list, also when that list is empty; the lists being empty changes
\* nothing in how the fallback attempts follow.
C27_AttemptOneAlways ==
    /\ PastAttempt1 =>
          /\ Len(Writes) >= 1
          /\ Writes[1].payload = MinimalPayload(device, string_cp)
    /\ (PastAttempt1 /\ Resolved(properties, lookup) = <<>>) =>
          /\ \A w \in 1..Len(Writes) : Writes[w].payload.customProperties = <<>>
          /\ \A w \in 1..(Len(Writes) - 1) : Writes[w].res = "error"
          /\ pc = "attempt2" => (Len(Writes) = 1 /\ Writes[1].res = "error")
          /\ pc = "attempt3" => (Len(Writes) = 2 /\ Writes[2].res = "error")
          /\ pc \in {"post_fetch", "print_result"} =>
                (Writes[Len(Writes)].res = "ok" \/ Len(Writes) = 3)

\* C27 witness: updates whose only key does not resolve, all three writes
\* sent with an empty list
C27_Witness ==
    /\ pc = "done"
    /\ Len(properties) = 1
    /\ string_cp = <<>>
    /\ Len(Writes) = 3
    /\ Writes[1].payload.customProperties = <<>>

-----------------------------------------------------------------------------
(* Properties of the rate limiter *)

\* C24: requests served one after the other: no client IP has more than
\* RATE_LIMIT_REQUESTS calls let through in one window; a call in a window
\* that has not expired and is used up is rejected and leaves the cache as
\* it was; a call more than RATE_LIMIT_WINDOW seconds after the window's
\* start is let through and stores count 1 with the call's time as start.
C24_FixedWindow ==
    /\ [](\A ip \in DOMAIN window : window[ip].allowed <= RATE_LIMIT_REQUESTS)
    /\ [][inv[1].pc = "read" =>
            LET ip == inv[1].client_ip
                ct == inv[1].current_time
            IN  /\ (ip \in DOMAIN window /\ ct - window[ip].start <= RATE_LIMIT_WINDOW
                       /\ window[ip].allowed >= RATE_LIMIT_REQUESTS) =>
                      /\ ~inv'[1].ret.allowed
                      /\ rate_limit_cache' = rate_limit_cache
                /\ (ip \in DOMAIN window /\ ct - window[ip].start > RATE_LIMIT_WINDOW) =>
                      /\ inv'[1].ret.allowed
                      /\ rate_limit_cache'[ip] = [count |-> 1, window_start |-> ct]
                      /\ window'[ip] = [start |-> ct, allowed |-> 1]
       ]_vars

\* C24 witness: the call at second 60 of a window in which 30 calls were let
\* through came back rejected
C24_Witness ==
    /\ inv[1].pc = "idle"
    /\ inv[1].ret # NoReturn
    /\ ~inv[1].ret.allowed
    /\ inv[1].current_time = 60
    /\ window[inv[1].client_ip] = [start |-> 0, allowed |-> RATE_LIMIT_REQUESTS]
    /\ rate_limit_cache[inv[1].client_ip].count = RATE_LIMIT_REQUESTS

\* C29: two invocations interleaved: no client IP has more than
\* RATE_LIMIT_REQUESTS calls let through in one window.
C29_RaceWithinLimit ==
    \A ip \in DOMAIN window : window[ip].allowed <= RATE_LIMIT_REQUESTS

-----------------------------------------------------------------------------
(* Properties of the HTTP handlers *)

\* C25: whenever validate_api_key got as far as the Key Vault lookup and the
\* lookup failed, because the secret does not exist or for another reason,
\* the key is rejected with the one message "Invalid API key".
C25_NoKeyOracle ==
    gate.vault \in {"not found", "error"} =>
        /\ ~gate.valid
        /\ gate.by = "key"
        /\ gate.error_msg = MsgInvalidKey
        /\ resp = Failure(401, MsgInvalidKey)

\* C25 witness: the lookup for the key of an existing client failed
C25_Witness ==
    /\ gate.vault = "error"
    /\ BodyKey(req.body) = KnownKey
    /\ hpc = "responded"

\* C28: a request rejected by require_valid_api_key is answered 429 only if
\* the rate limiter rejected it, and 401 whenever the API key was rejected.
C28_RejectionStatus ==
    (hpc = "responded" /\ gate.by \in {"rate", "request", "key"}) =>
        /\ resp.status = 429 => gate.by = "rate"
        /\ gate.by = "key" => resp.status = 401

\* the property ids the request's properties resolve to
HttpTargeted ==
    {prop_lookup[req.properties[k].key].id :
        k \in {j \in 1..Len(req.properties) : req.properties[j].key \in DOMAIN prop_lookup}}

\* C30: after the merge every entry the device had whose property id is not
\* updated stands unchanged at its index; for every updated property id the
\* first entry the device had of it is replaced at its index, or one entry
\* is appended if it had none; then the whole device is written once, and
\* no further write follows, whatever the remote answers.
C30_SingleWriteMerge ==
    /\ Len(Writes) <= 1
    /\ (hpc = "responded" /\ resp.status = 200) => Len(Writes) = 1
    /\ Len(Writes) = 1 =>
          (Writes[1].payload = hdevice /\ hdevice.keys = Device(remote_cp).keys)
    /\ (hpc = "set" \/ Len(Writes) = 1) =>
          LET old == remote_cp
              new == hdevice.customProperties
              Hits(pid) == {i \in 1..Len(old) : old[i].pid = pid}
          IN  /\ Len(new) = Len(old) + Cardinality({pid \in HttpTargeted : Hits(pid) = {}})
              /\ \A i \in 1..Len(old) : old[i].pid \notin HttpTargeted => new[i] = old[i]
              /\ \A k \in 1..Len(req.properties) :
                    req.properties[k].key \in DOMAIN prop_lookup =>
                       LET info == prop_lookup[req.properties[k].key]
                           v    == req.properties[k].val
                           pv   == PV({"property", "value"}, info.id, info.setId,
                                      IF v = StrV("") THEN NullV ELSE v, NullV, "", "")
                       IN  IF Hits(info.id) # {}
                           THEN \E f \in Hits(info.id) :
                                   /\ \A j \in Hits(info.id) : f <= j
                                   /\ new[f] = pv
                                   /\ \A j \in Hits(info.id) \ {f} : new[j] = old[j]
                           ELSE Cardinality({i \in (Len(old) + 1)..Len(new) :
                                                new[i] = pv}) = 1

\* C30 witness: the device held two entries of one property; one update
\* replaced the first of them, another one was appended, and the write was
\* accepted
C30_Witness ==
    /\ hpc = "responded"
    /\ resp.status = 200
    /\ Len(remote_cp) = 2
    /\ remote_cp[1].pid = "P2" /\ remote_cp[2].pid = "P2"
    /\ Len(hdevice.customProperties) = 3
    /\ hdevice.customProperties[1].keys = {"property", "value"}
    /\ hdevice.customProperties[2] = remote_cp[2]

====
